---- MODULE Spec2Model ----
(***************************************************************************)
(* Teacher/Course API (src/main.py, src/models/course.py,                  *)
(* src/models/teacher.py): two in-memory dicts, the pydantic models that   *)
(* validate what is written into them, and the FastAPI handlers, which run *)
(* in a thread pool (plain `def` endpoints) without any lock.              *)
(*                                                                         *)
(* Encoding.  An Optional value is a sequence of length <= 1: <<>> is      *)
(* None, <<v>> is v.  A dict (a request body, model_dump()) is a function  *)
(* from the names of the fields it holds to such values; a pydantic model  *)
(* instance is the dict of all its fields.  code, uni and email are        *)
(* sequences of one-character strings, so that the patterns are computed.  *)
(***************************************************************************)
EXTENDS Integers, Sequences, FiniteSets, TLC

\* ------------------------------------------------------------------ bounds
\* worker threads that handle requests at the same time
NumThreads == 2
\* distinct ids clients supply
MaxClientId == 2
\* values uuid4() returns in one run
MaxUuid == 2
\* readings of the wall clock
MaxTime == 2
\* entries the two dicts hold together
MaxEntities == 2

Threads == 1..NumThreads
\* variant that draws the same value every time
UuidStuck(n) == MaxClientId + 1
\* the n-th value drawn from uuid4(): never one a client has supplied
Uuid(n) == MaxClientId + n

None == <<>>
Some(v) == <<v>>

\* -------------------------------------------------------------- characters
UPPER == {"A","B","C","D","E","F","G","H","I","J","K","L","M",
          "N","O","P","Q","R","S","T","U","V","W","X","Y","Z"}
LOWER == {"a","b","c","d","e","f","g","h","i","j","k","l","m",
          "n","o","p","q","r","s","t","u","v","w","x","y","z"}
DIGIT == {"0","1","2","3","4","5","6","7","8","9"}

\* ^[A-Z]{4}\d{4}$
MatchesCourseCode(s) ==
    /\ Len(s) = 8
    /\ \A i \in 1..4 : s[i] \in UPPER
    /\ \A i \in 5..8 : s[i] \in DIGIT

\* ^[a-z]{2,3}\d{1,4}$
MatchesUni(s) ==
    \E k \in 2..3 :
        /\ Len(s) - k \in 1..4
        /\ \A i \in 1..k : s[i] \in LOWER
        /\ \A i \in (k+1)..Len(s) : s[i] \in DIGIT

UpperSeq == <<"A","B","C","D","E","F","G","H","I","J","K","L","M",
              "N","O","P","Q","R","S","T","U","V","W","X","Y","Z">>
LowerSeq == <<"a","b","c","d","e","f","g","h","i","j","k","l","m",
              "n","o","p","q","r","s","t","u","v","w","x","y","z">>
ToLower(c) ==
    IF c \in UPPER THEN LowerSeq[CHOOSE i \in 1..26 : UpperSeq[i] = c] ELSE c

\* EmailStr: one "@", a local part, a domain of dot-separated labels
AtPositions(s) == {i \in 1..Len(s) : s[i] = "@"}
IsEmail(s) ==
    /\ Cardinality(AtPositions(s)) = 1
    /\ LET a == CHOOSE i \in AtPositions(s) : TRUE
       IN  /\ a > 1
           /\ a + 2 < Len(s)
           /\ s[a+1] # "."
           /\ s[Len(s)] # "."
           /\ \E i \in (a+2)..(Len(s)-1) : s[i] = "."
           /\ \A i \in (a+1)..(Len(s)-1) : ~(s[i] = "." /\ s[i+1] = ".")
\* EmailStr returns the normalised address: the domain in lower case
NormalizeEmail(s) ==
    LET a == CHOOSE i \in AtPositions(s) : TRUE
    IN  [i \in 1..Len(s) |-> IF i > a THEN ToLower(s[i]) ELSE s[i]]

\* ------------------------------------------------------------------- dicts
\* A Python dict keeps insertion order: a sequence of (key, val) entries
\* with distinct keys.
\* variant that finds no key
HasNever(d, k) == FALSE
\* k in d
Has(d, k) == \E i \in 1..Len(d) : d[i].key = k
IndexOf(d, k) == CHOOSE i \in 1..Len(d) : d[i].key = k
Lookup(d, k) == d[IndexOf(d, k)].val
\* variant that moves an existing key to the end
PutAtEnd(d, k, v) ==
    Append(SelectSeq(d, LAMBDA e : e.key # k), [key |-> k, val |-> v])
\* d[k] = v: an existing key keeps its place, a new key goes last
Put(d, k, v) ==
    IF Has(d, k)
    THEN [d EXCEPT ![IndexOf(d, k)] = [key |-> k, val |-> v]]
    ELSE Append(d, [key |-> k, val |-> v])
\* variant that removes nothing
DelNothing(d, k) == d
\* del d[k]
Del(d, k) == SelectSeq(d, LAMBDA e : e.key # k)
Keys(d) == {d[i].key : i \in 1..Len(d)}
\* list(d.values())
Values(d) == [i \in 1..Len(d) |-> d[i].val]

\* a dict restricted to some of its fields
Restrict(d, fs) == [f \in (DOMAIN d) \cap fs |-> d[f]]
\* variants of the merge: one that skips the values that are None, one that
\* extends a list of courses instead of replacing it
DictUpdateTruthy(stored, patch) ==
    [f \in (DOMAIN stored) \cup (DOMAIN patch) |->
        IF f \in DOMAIN patch /\ patch[f] # <<>> THEN patch[f] ELSE stored[f]]
DictUpdateExtend(stored, patch) ==
    [f \in (DOMAIN stored) \cup (DOMAIN patch) |->
        IF f \notin DOMAIN patch THEN stored[f]
        ELSE IF f = "courses" /\ f \in DOMAIN stored /\ patch[f] # <<>>
        THEN <<stored[f][1] \o patch[f][1]>>
        ELSE patch[f]]
\* stored.update(patch)
DictUpdate(stored, patch) ==
    [f \in (DOMAIN stored) \cup (DOMAIN patch) |->
        IF f \in DOMAIN patch THEN patch[f] ELSE stored[f]]
\* a field is there and not None
Given(d, f) == f \in DOMAIN d /\ d[f] # None


\* --------------------------------------------------------- pydantic models
CourseBaseFields == {"id", "code", "title", "credits", "location"}
CourseUpdateFields == {"code", "title", "credits", "location"}
CourseReadFields == CourseBaseFields \cup {"created_at", "updated_at"}

\* variant with the bounds of credits exclusive
CourseBaseOkExclusive(d) ==
    /\ "id" \in DOMAIN d => d.id # None
    /\ Given(d, "code") /\ MatchesCourseCode(d.code[1])
    /\ Given(d, "title")
    /\ Given(d, "credits") /\ d.credits[1] > 1 /\ d.credits[1] < 5
\* CourseBase's validation of a dict: what raises ValidationError
CourseBaseOk(d) ==
    /\ "id" \in DOMAIN d => d.id # None
    /\ Given(d, "code") /\ MatchesCourseCode(d.code[1])
    /\ Given(d, "title")
    /\ Given(d, "credits") /\ d.credits[1] >= 1 /\ d.credits[1] <= 5
\* CourseBase(**d): unknown keys are ignored, id defaults to uuid4() (here u),
\* location to None
CourseBase(d, u) ==
    [f \in CourseBaseFields |->
        IF f \in DOMAIN d THEN d[f]
        ELSE IF f = "id" THEN Some(u) ELSE None]

\* CourseCreate adds nothing to CourseBase
CourseCreateOk(d) == CourseBaseOk(d)
CourseCreate(d, u) == CourseBase(d, u)

\* CourseUpdate: every field Optional, code a plain str, credits ge=1 le=5
CourseUpdateOk(d) ==
    Given(d, "credits") => (d.credits[1] >= 1 /\ d.credits[1] <= 5)
\* variant that lets an id through
CourseUpdateWithId(d) == Restrict(d, CourseUpdateFields \cup {"id"})
\* CourseUpdate(**d).model_dump(exclude_unset=True): the fields the body set
CourseUpdate(d) == Restrict(d, CourseUpdateFields)

\* variant that validates nothing
CourseReadOkAlways(d) == TRUE
\* CourseRead = CourseBase + created_at, updated_at (default utcnow(), here t)
CourseReadOk(d) ==
    /\ CourseBaseOk(d)
    /\ "created_at" \in DOMAIN d => d.created_at # None
    /\ "updated_at" \in DOMAIN d => d.updated_at # None
\* variant that sets updated_at anew
CourseReadTouch(d, u, t) ==
    [f \in CourseReadFields |->
        IF f = "updated_at" THEN Some(t)
        ELSE IF f \in DOMAIN d THEN d[f]
        ELSE IF f = "id" THEN Some(u)
        ELSE IF f = "created_at" THEN Some(t)
        ELSE None]
\* variant that keeps no location
CourseReadNoLocation(d, u, t) ==
    [f \in CourseReadFields |->
        IF f = "location" THEN None
        ELSE IF f \in DOMAIN d THEN d[f]
        ELSE IF f = "id" THEN Some(u)
        ELSE Some(t)]
CourseRead(d, u, t) ==
    [f \in CourseReadFields |->
        IF f \in DOMAIN d THEN d[f]
        ELSE IF f = "id" THEN Some(u)
        ELSE IF f \in {"created_at", "updated_at"} THEN Some(t)
        ELSE None]

TeacherBaseFields == {"uni", "first_name", "last_name", "department", "email",
                      "academic_title", "office", "courses"}
TeacherReadFields == TeacherBaseFields \cup {"id", "created_at", "updated_at"}

\* List[CourseBase]: every element validates as a CourseBase
EmbeddedOk(cs) == \A i \in 1..Len(cs) : CourseBaseOk(cs[i])
\* the embedded courses whose id the dict does not give
IdUnset(cs) == {i \in 1..Len(cs) : "id" \notin DOMAIN cs[i]}
NeedIds(cs) == Cardinality(IdUnset(cs))
\* [CourseBase(**c) for c in cs] after n draws of uuid4(): the elements are
\* built in order, each without an id drawing the next value
EmbeddedCourses(cs, n) ==
    [i \in 1..Len(cs) |->
        CourseBase(cs[i], Uuid(n + Cardinality({j \in IdUnset(cs) : j < i}) + 1))]
\* the embedded courses as model_dump(exclude_unset=True) gives them
EmbeddedSet(cs) == [i \in 1..Len(cs) |-> Restrict(cs[i], CourseBaseFields)]

TeacherBaseOk(d) ==
    /\ Given(d, "uni") /\ MatchesUni(d.uni[1])
    /\ Given(d, "first_name") /\ Given(d, "last_name") /\ Given(d, "department")
    /\ Given(d, "email") /\ IsEmail(d.email[1])
    /\ "courses" \in DOMAIN d => (d.courses # None /\ EmbeddedOk(d.courses[1]))
\* the fields of TeacherBase(**d) after n draws of uuid4()
TeacherBase(d, n) ==
    [f \in TeacherBaseFields |->
        IF f = "email" THEN Some(NormalizeEmail(d.email[1]))
        ELSE IF f = "courses"
             THEN IF f \in DOMAIN d THEN Some(EmbeddedCourses(d.courses[1], n))
                  ELSE Some(<<>>)
        ELSE IF f \in DOMAIN d THEN d[f] ELSE None]
\* uuid4() draws of TeacherBase(**d)
TeacherBaseDraws(d) == IF Given(d, "courses") THEN NeedIds(d.courses[1]) ELSE 0

\* TeacherCreate adds nothing to TeacherBase (it has no id field)
TeacherCreateOk(d) == TeacherBaseOk(d)
TeacherCreate(d, n) == TeacherBase(d, n)

\* TeacherUpdate: every field Optional[...] with TeacherBase's constraints
TeacherUpdateOk(d) ==
    /\ Given(d, "uni") => MatchesUni(d.uni[1])
    /\ Given(d, "email") => IsEmail(d.email[1])
    /\ Given(d, "courses") => EmbeddedOk(d.courses[1])
\* TeacherUpdate(**d).model_dump(exclude_unset=True): the fields the body set,
\* the email normalised, and of each embedded course the fields the body set
TeacherUpdate(d) ==
    [f \in (DOMAIN d) \cap TeacherBaseFields |->
        IF f = "email" /\ d[f] # None THEN Some(NormalizeEmail(d.email[1]))
        ELSE IF f = "courses" /\ d[f] # None THEN Some(EmbeddedSet(d.courses[1]))
        ELSE d[f]]

\* TeacherRead = TeacherBase + id (default uuid4()) + created_at, updated_at
TeacherReadOk(d) ==
    /\ TeacherBaseOk(d)
    /\ "id" \in DOMAIN d => d.id # None
    /\ "created_at" \in DOMAIN d => d.created_at # None
    /\ "updated_at" \in DOMAIN d => d.updated_at # None
TeacherReadDraws(d) ==
    TeacherBaseDraws(d) + (IF "id" \in DOMAIN d THEN 0 ELSE 1)
TeacherRead(d, n, t) ==
    [f \in TeacherReadFields |->
        IF f \in TeacherBaseFields THEN TeacherBase(d, n)[f]
        ELSE IF f \in DOMAIN d THEN d[f]
        ELSE IF f = "id" THEN Some(Uuid(n + TeacherBaseDraws(d) + 1))
        ELSE Some(t)]

\* ----------------------------------------------------------------- filters
\* list_courses: one list comprehension per criterion that is not None
\* variant that stops after the credits criterion
FilterCoursesNoLocation(all, q) ==
    LET r1 == IF "code" \in DOMAIN q
              THEN SelectSeq(all, LAMBDA a : a.code = q.code) ELSE all
        r2 == IF "title" \in DOMAIN q
              THEN SelectSeq(r1, LAMBDA a : a.title = q.title) ELSE r1
    IN  IF "credits" \in DOMAIN q
        THEN SelectSeq(r2, LAMBDA a : a.credits = q.credits) ELSE r2
FilterCourses(all, q) ==
    LET r1 == IF "code" \in DOMAIN q
              THEN SelectSeq(all, LAMBDA a : a.code = q.code) ELSE all
        r2 == IF "title" \in DOMAIN q
              THEN SelectSeq(r1, LAMBDA a : a.title = q.title) ELSE r1
        r3 == IF "credits" \in DOMAIN q
              THEN SelectSeq(r2, LAMBDA a : a.credits = q.credits) ELSE r2
    IN  IF "location" \in DOMAIN q
        THEN SelectSeq(r3, LAMBDA a : a.location = q.location) ELSE r3

\* (c.location or ""): None and "" both give ""
LocationOrEmpty(c) == IF c.location = None THEN Some("") ELSE c.location
\* any((c.location or "") == location for c in t.courses)
AnyLocation(cs, location) ==
    \E i \in 1..Len(cs) : LocationOrEmpty(cs[i]) = location
\* any(c.credits == credits for c in t.courses)
AnyCredits(cs, credits) == \E i \in 1..Len(cs) : cs[i].credits = credits

\* list_teachers: the seven direct criteria, then the two nested ones
FilterTeachers(all, q) ==
    LET r1 == IF "uni" \in DOMAIN q
              THEN SelectSeq(all, LAMBDA p : p.uni = q.uni) ELSE all
        r2 == IF "first_name" \in DOMAIN q
              THEN SelectSeq(r1, LAMBDA p : p.first_name = q.first_name) ELSE r1
        r3 == IF "last_name" \in DOMAIN q
              THEN SelectSeq(r2, LAMBDA p : p.last_name = q.last_name) ELSE r2
        r4 == IF "department" \in DOMAIN q
              THEN SelectSeq(r3, LAMBDA p : p.department = q.department) ELSE r3
        r5 == IF "email" \in DOMAIN q
              THEN SelectSeq(r4, LAMBDA p : p.email = q.email) ELSE r4
        r6 == IF "academic_title" \in DOMAIN q
              THEN SelectSeq(r5, LAMBDA p : p.academic_title = q.academic_title)
              ELSE r5
        r7 == IF "office" \in DOMAIN q
              THEN SelectSeq(r6, LAMBDA p : p.office = q.office) ELSE r6
        r8 == IF "location" \in DOMAIN q
              THEN SelectSeq(r7, LAMBDA p : AnyLocation(p.courses[1], q.location))
              ELSE r7
    IN  IF "credits" \in DOMAIN q
        THEN SelectSeq(r8, LAMBDA p : AnyCredits(p.courses[1], q.credits))
        ELSE r8
\* Query(None, ge=1, le=5) on the credits criterion of both listings
CreditsQueryOk(q) ==
    "credits" \in DOMAIN q => (q.credits[1] >= 1 /\ q.credits[1] <= 5)


\* ------------------------------------------------------------------- state
VARIABLES
    courses,    \* main.py: courses, the dict of CourseRead by id
    teachers,   \* main.py: teachers, the dict of TeacherRead by id
    pc,         \* per worker thread: the line its handler is at
    req,        \* per worker thread: the decoded request
    stored,     \* per worker thread: the local `stored` of an update handler
    resp,       \* per worker thread: the response (status code, body)
    now,        \* the wall clock datetime.utcnow() reads
    uuidCtr     \* how many values uuid4() has returned

vars == <<courses, teachers, pc, req, stored, resp, now, uuidCtr>>

NoReq == [op |-> "none", id |-> 0, body |-> <<>>]
NoResp == [status |-> 0, body |-> <<>>]

Init ==
    /\ courses = <<>>
    /\ teachers = <<>>
    /\ pc = [t \in Threads |-> "idle"]
    /\ req = [t \in Threads |-> NoReq]
    /\ stored = [t \in Threads |-> <<>>]
    /\ resp = [t \in Threads |-> NoResp]
    /\ now = 1
    /\ uuidCtr = 0

\* the request is taken up by worker t and decoded
Accept(t, op, id, body) ==
    /\ pc[t] = "idle"
    /\ req' = [req EXCEPT ![t] = [op |-> op, id |-> id, body |-> body]]
\* the handler moves on to another line
Goto(t, line) ==
    /\ pc' = [pc EXCEPT ![t] = line]
    /\ resp' = resp
\* the handler returns, or raises: the response is ready
Finish(t, status, body) ==
    /\ pc' = [pc EXCEPT ![t] = "done"]
    /\ resp' = [resp EXCEPT ![t] = [status |-> status, body |-> body]]

\* --------------------------------------------------------- Course handlers
\* POST /courses: the body is decoded as CourseCreate (422 when it does not
\* validate), then line 42: if course.id in courses -> 400
create_course_check(t, body) ==
    /\ "id" \notin DOMAIN body => uuidCtr < MaxUuid
    /\ IF ~CourseCreateOk(body)
       THEN /\ Accept(t, "create_course", 0, body)
            /\ Finish(t, 422, <<>>)
            /\ UNCHANGED uuidCtr
       ELSE LET course == CourseCreate(body, Uuid(uuidCtr + 1))
            IN  /\ Accept(t, "create_course", course.id[1], course)
                /\ uuidCtr' = IF "id" \in DOMAIN body THEN uuidCtr ELSE uuidCtr + 1
                /\ IF Has(courses, course.id[1])
                   THEN Finish(t, 400, <<>>)
                   ELSE Goto(t, "create_course_44")
    /\ UNCHANGED <<courses, teachers, stored, now>>

\* line 44: courses[course.id] = CourseRead(**course.model_dump())
create_course_insert(t) ==
    /\ pc[t] = "create_course_44"
    /\ courses' = Put(courses, req[t].id, CourseRead(req[t].body, 0, now))
    /\ Goto(t, "create_course_45")
    /\ UNCHANGED <<teachers, req, stored, now, uuidCtr>>

\* line 45: return courses[course.id] (KeyError -> 500 when the key is gone)
create_course_return(t) ==
    /\ pc[t] = "create_course_45"
    /\ IF Has(courses, req[t].id)
       THEN Finish(t, 201, Lookup(courses, req[t].id))
       ELSE Finish(t, 500, <<>>)
    /\ UNCHANGED <<courses, teachers, req, stored, now, uuidCtr>>

\* GET /courses: lines 54-65 (422 when the credits criterion is out of range)
list_courses(t, q) ==
    /\ Accept(t, "list_courses", 0, q)
    /\ IF ~CreditsQueryOk(q)
       THEN Finish(t, 422, <<>>)
       ELSE Finish(t, 200, FilterCourses(Values(courses), q))
    /\ UNCHANGED <<courses, teachers, stored, now, uuidCtr>>

\* GET /courses/{id}: line 69
get_course_check(t, id) ==
    /\ Accept(t, "get_course", id, <<>>)
    /\ IF ~Has(courses, id)
       THEN Finish(t, 404, <<>>)
       ELSE Goto(t, "get_course_71")
    /\ UNCHANGED <<courses, teachers, stored, now, uuidCtr>>

\* variant that takes the record out of the store as it returns it
get_course_pop(t) ==
    /\ pc[t] = "get_course_71"
    /\ Has(courses, req[t].id)
    /\ Finish(t, 200, Lookup(courses, req[t].id))
    /\ courses' = Del(courses, req[t].id)
    /\ UNCHANGED <<teachers, req, stored, now, uuidCtr>>
\* line 71: return courses[course_id]
get_course_return(t) ==
    /\ pc[t] = "get_course_71"
    /\ IF Has(courses, req[t].id)
       THEN Finish(t, 200, Lookup(courses, req[t].id))
       ELSE Finish(t, 500, <<>>)
    /\ UNCHANGED <<courses, teachers, req, stored, now, uuidCtr>>

\* PUT /courses/{id}: the body is decoded as CourseUpdate (422), then line 75
update_course_check(t, id, body) ==
    /\ Accept(t, "update_course", id, CourseUpdate(body))
    /\ IF ~CourseUpdateOk(body)
       THEN Finish(t, 422, <<>>)
       ELSE IF ~Has(courses, id)
       THEN Finish(t, 404, <<>>)
       ELSE Goto(t, "update_course_77")
    /\ UNCHANGED <<courses, teachers, stored, now, uuidCtr>>

\* lines 77-78: stored = courses[course_id].model_dump(); stored.update(...)
update_course_read(t) ==
    /\ pc[t] = "update_course_77"
    /\ IF Has(courses, req[t].id)
       THEN /\ stored' = [stored EXCEPT
                   ![t] = DictUpdate(Lookup(courses, req[t].id), req[t].body)]
            /\ Goto(t, "update_course_79")
       ELSE /\ Finish(t, 500, <<>>)
            /\ UNCHANGED stored
    /\ UNCHANGED <<courses, teachers, req, now, uuidCtr>>

\* line 79: courses[course_id] = CourseRead(**stored); a ValidationError
\* raised here is no request error: the response is 500
update_course_write(t) ==
    /\ pc[t] = "update_course_79"
    /\ IF CourseReadOk(stored[t])
       THEN /\ courses' = Put(courses, req[t].id, CourseRead(stored[t], 0, now))
            /\ Goto(t, "update_course_80")
       ELSE /\ Finish(t, 500, <<>>)
            /\ UNCHANGED courses
    /\ UNCHANGED <<teachers, req, stored, now, uuidCtr>>

\* line 80: return courses[course_id]
update_course_return(t) ==
    /\ pc[t] = "update_course_80"
    /\ IF Has(courses, req[t].id)
       THEN Finish(t, 200, Lookup(courses, req[t].id))
       ELSE Finish(t, 500, <<>>)
    /\ UNCHANGED <<courses, teachers, req, stored, now, uuidCtr>>

\* DELETE /courses/{id}: line 84
delete_course_check(t, id) ==
    /\ Accept(t, "delete_course", id, <<>>)
    /\ IF ~Has(courses, id)
       THEN Finish(t, 404, <<>>)
       ELSE Goto(t, "delete_course_86")
    /\ UNCHANGED <<courses, teachers, stored, now, uuidCtr>>

\* line 86: del courses[course_id]
delete_course_del(t) ==
    /\ pc[t] = "delete_course_86"
    /\ IF Has(courses, req[t].id)
       THEN /\ courses' = Del(courses, req[t].id)
            /\ Finish(t, 204, <<>>)
       ELSE /\ Finish(t, 500, <<>>)
            /\ UNCHANGED courses
    /\ UNCHANGED <<teachers, req, stored, now, uuidCtr>>


\* -------------------------------------------------------- Teacher handlers
\* POST /teachers: the body is decoded as TeacherCreate (422), then lines
\* 94-96; line 95 is the handler's one access to the dict
create_teacher(t, body) ==
    /\ TeacherCreateOk(body) => uuidCtr + TeacherBaseDraws(body) + 1 <= MaxUuid
    /\ IF ~TeacherCreateOk(body)
       THEN /\ Accept(t, "create_teacher", 0, body)
            /\ Finish(t, 422, <<>>)
            /\ UNCHANGED <<teachers, uuidCtr>>
       ELSE LET teacher == TeacherCreate(body, uuidCtr)
                drawn == uuidCtr + TeacherBaseDraws(body)
                teacher_read == TeacherRead(teacher, drawn, now)
            IN  /\ Accept(t, "create_teacher", teacher_read.id[1], teacher)
                /\ uuidCtr' = drawn + TeacherReadDraws(teacher)
                /\ teachers' = Put(teachers, teacher_read.id[1], teacher_read)
                /\ Finish(t, 201, teacher_read)
    /\ UNCHANGED <<courses, stored, now>>

\* GET /teachers: lines 111-134
list_teachers(t, q) ==
    /\ Accept(t, "list_teachers", 0, q)
    /\ IF ~CreditsQueryOk(q)
       THEN Finish(t, 422, <<>>)
       ELSE Finish(t, 200, FilterTeachers(Values(teachers), q))
    /\ UNCHANGED <<courses, teachers, stored, now, uuidCtr>>

\* GET /teachers/{id}: line 138
get_teacher_check(t, id) ==
    /\ Accept(t, "get_teacher", id, <<>>)
    /\ IF ~Has(teachers, id)
       THEN Finish(t, 404, <<>>)
       ELSE Goto(t, "get_teacher_140")
    /\ UNCHANGED <<courses, teachers, stored, now, uuidCtr>>

\* line 140: return teachers[teacher_id]
get_teacher_return(t) ==
    /\ pc[t] = "get_teacher_140"
    /\ IF Has(teachers, req[t].id)
       THEN Finish(t, 200, Lookup(teachers, req[t].id))
       ELSE Finish(t, 500, <<>>)
    /\ UNCHANGED <<courses, teachers, req, stored, now, uuidCtr>>

\* PUT /teachers/{id}: the body is decoded as TeacherUpdate (422), then
\* line 144
update_teacher_check(t, id, body) ==
    /\ IF ~TeacherUpdateOk(body)
       THEN /\ Accept(t, "update_teacher", id, body)
            /\ Finish(t, 422, <<>>)
       ELSE /\ Accept(t, "update_teacher", id, TeacherUpdate(body))
            /\ IF ~Has(teachers, id)
               THEN Finish(t, 404, <<>>)
               ELSE Goto(t, "update_teacher_146")
    /\ UNCHANGED <<courses, teachers, stored, now, uuidCtr>>

\* lines 146-147: stored = teachers[teacher_id].model_dump(); stored.update(...)
update_teacher_read(t) ==
    /\ pc[t] = "update_teacher_146"
    /\ IF Has(teachers, req[t].id)
       THEN /\ stored' = [stored EXCEPT
                   ![t] = DictUpdate(Lookup(teachers, req[t].id), req[t].body)]
            /\ Goto(t, "update_teacher_148")
       ELSE /\ Finish(t, 500, <<>>)
            /\ UNCHANGED stored
    /\ UNCHANGED <<courses, teachers, req, now, uuidCtr>>

\* line 148: teachers[teacher_id] = TeacherRead(**stored); an embedded course
\* the body gave no id draws a new one from uuid4()
update_teacher_write(t) ==
    /\ pc[t] = "update_teacher_148"
    /\ TeacherReadOk(stored[t]) => uuidCtr + TeacherReadDraws(stored[t]) <= MaxUuid
    /\ IF TeacherReadOk(stored[t])
       THEN /\ teachers' = Put(teachers, req[t].id,
                               TeacherRead(stored[t], uuidCtr, now))
            /\ uuidCtr' = uuidCtr + TeacherReadDraws(stored[t])
            /\ Goto(t, "update_teacher_149")
       ELSE /\ Finish(t, 500, <<>>)
            /\ UNCHANGED <<teachers, uuidCtr>>
    /\ UNCHANGED <<courses, req, stored, now>>

\* line 149: return teachers[teacher_id]
update_teacher_return(t) ==
    /\ pc[t] = "update_teacher_149"
    /\ IF Has(teachers, req[t].id)
       THEN Finish(t, 200, Lookup(teachers, req[t].id))
       ELSE Finish(t, 500, <<>>)
    /\ UNCHANGED <<courses, teachers, req, stored, now, uuidCtr>>

\* DELETE /teachers/{id}: line 153
delete_teacher_check(t, id) ==
    /\ Accept(t, "delete_teacher", id, <<>>)
    /\ IF ~Has(teachers, id)
       THEN Finish(t, 404, <<>>)
       ELSE Goto(t, "delete_teacher_155")
    /\ UNCHANGED <<courses, teachers, stored, now, uuidCtr>>

\* variant that also deletes the stored courses the teacher embeds
delete_teacher_cascade(t) ==
    /\ pc[t] = "delete_teacher_155"
    /\ Has(teachers, req[t].id)
    /\ teachers' = Del(teachers, req[t].id)
    /\ courses' = SelectSeq(courses, LAMBDA e :
                      \A i \in 1..Len(Lookup(teachers, req[t].id).courses[1]) :
                          Lookup(teachers, req[t].id).courses[1][i].id[1] # e.key)
    /\ Finish(t, 204, <<>>)
    /\ UNCHANGED <<req, stored, now, uuidCtr>>
\* line 155: del teachers[teacher_id]
delete_teacher_del(t) ==
    /\ pc[t] = "delete_teacher_155"
    /\ IF Has(teachers, req[t].id)
       THEN /\ teachers' = Del(teachers, req[t].id)
            /\ Finish(t, 204, <<>>)
       ELSE /\ Finish(t, 500, <<>>)
            /\ UNCHANGED teachers
    /\ UNCHANGED <<courses, req, stored, now, uuidCtr>>

\* ------------------------------------------------------------- environment
\* the response is sent and the worker thread is free again
Respond(t) ==
    /\ pc[t] = "done"
    /\ pc' = [pc EXCEPT ![t] = "idle"]
    /\ req' = [req EXCEPT ![t] = NoReq]
    /\ stored' = [stored EXCEPT ![t] = <<>>]
    /\ resp' = [resp EXCEPT ![t] = NoResp]
    /\ UNCHANGED <<courses, teachers, now, uuidCtr>>

\* time passes
Tick ==
    /\ now < MaxTime
    /\ now' = now + 1
    /\ UNCHANGED <<courses, teachers, pc, req, stored, resp, uuidCtr>>


\* ------------------------------------------------------------------ inputs
\* The values of the examples the models declare (json_schema_extra), and
\* values on either side of each constraint.
COMS4701 == <<"C","O","M","S","4","7","0","1">>
COMS4111 == <<"C","O","M","S","4","1","1","1">>
HUMA1123 == <<"H","U","M","A","1","1","2","3">>
\* lower case, and one digit short
LowerCode == <<"c","o","m","s","4","7","0","1">>
BadCodes == {LowerCode, <<"C","O","M","S","4","7","0">>}
Dff9 == <<"d","f","f","9">>
Ab1234 == <<"a","b","1","2","3","4">>
\* upper case, four letters, no digit, five digits
UpperUni == <<"A","B","1">>
BadUnis == {UpperUni, <<"a","b","c","d","1">>, <<"a","b">>,
            <<"a","b","1","2","3","4","5">>}
Dff9Email == <<"d","f","f","9","@","e","x","a","m","p","l","e",".","c","o","m">>
Dff9EmailUpper == <<"d","f","f","9","@","E","X","A","M","P","L","E",".","C","O","M">>
Ab1234Email == <<"a","b","1","2","3","4","@","n","e","w","m","a","i","l",".","c","o","m">>
\* no "@", no dot in the domain
NoAtEmail == <<"d","f","f","9",".","c","o","m">>
BadEmails == {NoAtEmail, <<"d","f","f","9","@","c","o","m">>}

NWC == "501 Northwest Corner"
IAB == "417 International Affairs Building"

CloudComputing ==
    [code |-> Some(COMS4701), title |-> Some("Cloud Computing"),
     credits |-> Some(3), location |-> Some(NWC)]
Databases ==
    [code |-> Some(COMS4111), title |-> Some("Introduction to Databases"),
     credits |-> Some(3), location |-> Some(IAB)]
MusicHumanities ==
    [code |-> Some(HUMA1123), title |-> Some("Music Humanities"),
     credits |-> Some(3), location |-> Some("404 Dodge Hall")]
Ferguson ==
    [uni |-> Some(Dff9), first_name |-> Some("Donald"),
     last_name |-> Some("Ferguson"), department |-> Some("COMS"),
     email |-> Some(Dff9Email), academic_title |-> Some("Professor"),
     office |-> None]

WithId(i, d) == ("id" :> Some(i)) @@ d

\* Requests that arrive one at a time: each field is set, left out, set to
\* None, and set to a value on either side of its constraint.
Except(d, f, v) == (f :> v) @@ d
Without(d, f) == Restrict(d, (DOMAIN d) \ {f})

CourseCreates ==
    {WithId(1, CloudComputing),
     WithId(2, Except(Databases, "credits", Some(5))),
     Without(Except(CloudComputing, "credits", Some(1)), "location")}
    \cup {WithId(1, Except(CloudComputing, "credits", Some(k))) : k \in {0, 6}}
    \cup {WithId(1, Except(CloudComputing, "code", Some(c))) : c \in BadCodes}
    \cup {WithId(1, Except(CloudComputing, "title", None)),
          WithId(1, Without(CloudComputing, "code")),
          Except(CloudComputing, "id", None)}
CourseUpdates ==
    {[location |-> Some(IAB)],
     [location |-> None],
     [code |-> Some(COMS4111), title |-> Some("Introduction to Databases"),
      credits |-> Some(3)],
     <<>>,
     [id |-> Some(2), created_at |-> Some(0), updated_at |-> Some(0)]
        @@ Databases,
     [credits |-> Some(0)],
     [credits |-> Some(6), location |-> Some(IAB)],
     [credits |-> None, location |-> Some(IAB)],
     [title |-> None],
     [code |-> Some(LowerCode), location |-> Some(IAB)]}
CourseQueries ==
    {<<>>,
     [code |-> Some(COMS4701)],
     [title |-> Some("Cloud Computing")],
     [credits |-> Some(3)],
     [location |-> Some(NWC)],
     [credits |-> Some(3), location |-> Some(NWC)],
     [code |-> Some(COMS4701), title |-> Some("Cloud Computing"),
      credits |-> Some(3), location |-> Some(NWC)],
     [location |-> Some("501")],
     [credits |-> Some(6)]}
\* the ids a client can put in a course path
CoursePathIds == {1} \cup Keys(courses)

Bachman ==
    [uni |-> Some(Ab1234), first_name |-> Some("Alice"),
     last_name |-> Some("Bachman"), department |-> Some("HUMA"),
     email |-> Some(Ab1234Email)]
TeacherCreates ==
    {Except(Ferguson, "email", Some(Dff9EmailUpper))
        @@ [courses |-> Some(<<WithId(1, CloudComputing)>>)],
     WithId(1, Bachman)}
    \cup {Except(Ferguson, "uni", Some(u)) : u \in BadUnis}
    \cup {Except(Ferguson, "email", Some(e)) : e \in BadEmails}
    \cup {Except(Ferguson, "first_name", None),
          Without(Ferguson, "department"),
          Except(Ferguson, "courses", None),
          Ferguson @@ [courses |->
              Some(<<Except(CloudComputing, "credits", Some(0))>>)]}
TeacherUpdates ==
    {[first_name |-> Some("Alice"), last_name |-> Some("Bachman")],
     [courses |-> Some(<<>>)],
     [courses |-> Some(<<Without(MusicHumanities, "location")>>)],
     [academic_title |-> None, office |-> Some("211 Mudd")],
     [email |-> Some(Dff9EmailUpper)],
     <<>>,
     [uni |-> None, office |-> Some("211 Mudd")],
     [email |-> None],
     [courses |-> None],
     [courses |-> Some(<<Except(MusicHumanities, "credits", Some(6))>>)],
     [uni |-> Some(UpperUni), office |-> Some("211 Mudd")],
     [email |-> Some(NoAtEmail)]}
TeacherQueries ==
    {<<>>,
     [uni |-> Some(Dff9)],
     [first_name |-> Some("Donald"), last_name |-> Some("Ferguson")],
     [department |-> Some("COMS"), email |-> Some(Dff9Email)],
     [academic_title |-> Some("Professor")],
     [department |-> Some("coms")],
     [location |-> Some(NWC)],
     [location |-> Some("")],
     [credits |-> Some(3)],
     [credits |-> Some(6)]}
\* the ids a client can put in a teacher path: those the server has returned
TeacherPathIds == {Uuid(1)} \cup Keys(teachers)

\* the requests of the concurrent specifications: few, and aimed at one id
RaceCourseCreates == {WithId(1, CloudComputing), WithId(1, Databases)}
RaceCourseUpdates == {[location |-> Some(IAB)], [credits |-> Some(5)]}
RaceTeacherCreates == {Ferguson}
RaceTeacherUpdates ==
    {[first_name |-> Some("Alice"), last_name |-> Some("Bachman")],
     [office |-> Some("211 Mudd")]}

\* --------------------------------------------------------- specifications
\* The course handlers of worker threads T, fed from the given requests.
CourseStep(T, creates, updates, queries) ==
    \E t \in T :
        \/ /\ Len(courses) + Len(teachers) < MaxEntities
           /\ \E b \in creates : create_course_check(t, b)
        \/ create_course_insert(t)
        \/ create_course_return(t)
        \/ \E q \in queries : list_courses(t, q)
        \/ \E i \in CoursePathIds : get_course_check(t, i)
        \/ get_course_return(t)
        \/ \E i \in CoursePathIds, b \in updates : update_course_check(t, i, b)
        \/ update_course_read(t)
        \/ update_course_write(t)
        \/ update_course_return(t)
        \/ \E i \in CoursePathIds : delete_course_check(t, i)
        \/ delete_course_del(t)

\* The teacher handlers of worker threads T, fed from the given requests.
TeacherStep(T, creates, updates, queries) ==
    \E t \in T :
        \/ /\ Len(courses) + Len(teachers) < MaxEntities
           /\ \E b \in creates : create_teacher(t, b)
        \/ \E q \in queries : list_teachers(t, q)
        \/ \E i \in TeacherPathIds : get_teacher_check(t, i)
        \/ get_teacher_return(t)
        \/ \E i \in TeacherPathIds, b \in updates : update_teacher_check(t, i, b)
        \/ update_teacher_read(t)
        \/ update_teacher_write(t)
        \/ update_teacher_return(t)
        \/ \E i \in TeacherPathIds : delete_teacher_check(t, i)
        \/ delete_teacher_del(t)

\* Requests of both kinds, handled one at a time by one worker thread.
Next ==
    \/ CourseStep({1}, CourseCreates, CourseUpdates, CourseQueries)
    \/ TeacherStep({1}, TeacherCreates, TeacherUpdates, TeacherQueries)
    \/ Respond(1)
    \/ Tick

Spec == Init /\ [][Next]_vars

\* Course requests handled by the worker threads at the same time, a line at
\* a time, as the thread pool runs them.
CourseRacesNext ==
    \/ CourseStep(Threads, RaceCourseCreates, RaceCourseUpdates, {<<>>})
    \/ \E t \in Threads : Respond(t)

CourseRaces == Init /\ [][CourseRacesNext]_vars

\* Teacher requests handled by the worker threads at the same time.
TeacherRacesNext ==
    \/ TeacherStep(Threads, RaceTeacherCreates, RaceTeacherUpdates, {<<>>})
    \/ \E t \in Threads : Respond(t)

TeacherRaces == Init /\ [][TeacherRacesNext]_vars


\* -------------------------------------------------------------- properties
\* worker t takes up a request of kind op in this step
Takes(t, op) == pc[t] = "idle" /\ pc'[t] # "idle" /\ req'[t].op = op
\* worker t leaves line `line` in this step
Leaves(t, line) == pc[t] = line /\ pc'[t] # line

\* C1: a course creation whose decoded payload carries an id that is already
\* a key of the store is answered 400 Conflict at once, and the store, the
\* record under that id included, is what it was.
C1_DuplicateIdIsConflict ==
    [][\A t \in Threads :
         (Takes(t, "create_course") /\ req'[t].id \in Keys(courses))
         => /\ pc'[t] = "done"
            /\ resp'[t].status = 400
            /\ courses' = courses]_vars
\* a creation was refused with 400 while the record under its id differs from
\* the payload
C1_Witness ==
    \E t \in Threads :
        /\ pc[t] = "done" /\ req[t].op = "create_course"
        /\ resp[t].status = 400
        /\ req[t].id \in Keys(courses)
        /\ Lookup(courses, req[t].id).location # req[t].body.location

\* C2: of creations of one id that run at the same time at most one is
\* answered 201 and the others 400: the insert of line 44 never lands on an
\* id that is already stored.
C2_InsertNeverOverwrites ==
    [][\A t \in Threads :
         Leaves(t, "create_course_44") => req[t].id \notin Keys(courses)]_vars

\* C3: updates of one teacher that run at the same time take effect one after
\* the other: the merged dict written at line 148 is the merge of the payload
\* into the record stored at that moment, so no other update is lost.
C3_WriteIsMergeOfCurrent ==
    [][\A t \in Threads :
         (Leaves(t, "update_teacher_148") /\ req[t].id \in Keys(teachers))
         => stored[t] = DictUpdate(Lookup(teachers, req[t].id), req[t].body)]_vars

\* an embedded course list that has, element for element, the fields a
\* payload's list set
SameOnSetFields(cs, ps) ==
    /\ Len(cs) = Len(ps)
    /\ \A i \in 1..Len(ps) : \A g \in DOMAIN ps[i] : cs[i][g] = ps[i][g]

\* C4: a successful update leaves every field the typed payload does not
\* carry at the value it had, and gives every field the payload carries the
\* payload's value, None included (of an embedded course list: the payload's
\* elements).
C4_UpdateMergesPayload ==
    [][\A t \in Threads :
         /\ (Leaves(t, "update_course_79") /\ pc'[t] = "update_course_80")
            => LET old == Lookup(courses, req[t].id)
                   new == Lookup(courses', req[t].id)
                   p == req[t].body
               IN  \A f \in CourseReadFields :
                       new[f] = IF f \in DOMAIN p THEN p[f] ELSE old[f]
         /\ (Leaves(t, "update_teacher_148") /\ pc'[t] = "update_teacher_149")
            => LET old == Lookup(teachers, req[t].id)
                   new == Lookup(teachers', req[t].id)
                   p == req[t].body
               IN  \A f \in TeacherReadFields :
                       IF f \notin DOMAIN p THEN new[f] = old[f]
                       ELSE IF f = "courses"
                       THEN SameOnSetFields(new[f][1], p[f][1])
                       ELSE new[f] = p[f]]_vars
\* an update that set one field to None and another to a value was answered
\* 200 with both, and the rest of the record is there
C4_Witness ==
    \E t \in Threads :
        /\ pc[t] = "done" /\ req[t].op = "update_teacher"
        /\ resp[t].status = 200
        /\ DOMAIN req[t].body = {"academic_title", "office"}
        /\ resp[t].body.academic_title = None
        /\ resp[t].body.office # None
        /\ resp[t].body.first_name # None

\* a stored record of each kind, to try a payload's values on
SomeCourse == CourseRead(WithId(1, CloudComputing), 0, 1)
SomeTeacher == TeacherRead(Ferguson, 0, 1)
\* the payload supplies a value the entity's validation refuses
InvalidUpdate(op, p) ==
    IF op = "update_course" THEN ~CourseReadOk(DictUpdate(SomeCourse, p))
    ELSE ~TeacherReadOk(DictUpdate(SomeTeacher, p))

\* C5: an update of a stored entity whose payload supplies a value that fails
\* validation is answered 422 and changes neither store.
C5_InvalidUpdateIs422 ==
    [][\A t \in Threads :
         (/\ pc[t] # pc'[t]
          /\ req'[t].op \in {"update_course", "update_teacher"}
          /\ InvalidUpdate(req'[t].op, req'[t].body)
          /\ req'[t].id \in Keys(IF req'[t].op = "update_course"
                                   THEN courses ELSE teachers))
         => /\ courses' = courses /\ teachers' = teachers
            /\ pc'[t] = "done" => resp'[t].status = 422]_vars

\* C6: once a delete has been answered 204 the id is no key of the store; an
\* id that is no key is answered 404 by get, update and delete, is in no
\* listing, and becomes a key again only by a creation.
C6_DeletedIsGone ==
    [][/\ \A t \in Threads :
            /\ (Leaves(t, "delete_course_86") /\ resp'[t].status = 204)
               => req[t].id \notin Keys(courses')
            /\ (Leaves(t, "delete_teacher_155") /\ resp'[t].status = 204)
               => req[t].id \notin Keys(teachers')
            /\ \A op \in {"get_course", "update_course", "delete_course"} :
                 (/\ Takes(t, op)
                  /\ req'[t].id \notin Keys(courses)
                  /\ op = "update_course" => CourseUpdateOk(req'[t].body))
                 => /\ pc'[t] = "done" /\ resp'[t].status = 404
                    /\ courses' = courses
            /\ \A op \in {"get_teacher", "update_teacher", "delete_teacher"} :
                 (/\ Takes(t, op)
                  /\ req'[t].id \notin Keys(teachers)
                  /\ op = "update_teacher" => TeacherUpdateOk(req'[t].body))
                 => /\ pc'[t] = "done" /\ resp'[t].status = 404
                    /\ teachers' = teachers
            /\ (Takes(t, "list_courses") /\ resp'[t].status = 200)
               => \A i \in 1..Len(resp'[t].body) :
                      resp'[t].body[i].id[1] \in Keys(courses)
            /\ (Takes(t, "list_teachers") /\ resp'[t].status = 200)
               => \A i \in 1..Len(resp'[t].body) :
                      resp'[t].body[i].id[1] \in Keys(teachers)
       /\ \A x \in Keys(courses') \ Keys(courses) :
            \E t \in Threads : Leaves(t, "create_course_44") /\ req[t].id = x
       /\ \A x \in Keys(teachers') \ Keys(teachers) :
            \E t \in Threads : Takes(t, "create_teacher") /\ req'[t].id = x]_vars
\* a delete was answered 204, its id is gone and another record is still there
C6_Witness ==
    \E t \in Threads :
        /\ pc[t] = "done" /\ req[t].op = "delete_course"
        /\ resp[t].status = 204
        /\ req[t].id \notin Keys(courses)
        /\ Len(courses) >= 1

\* C7: a successful teacher update whose payload carries courses leaves the
\* teacher with exactly the payload's list (as many elements, each with the
\* fields the payload gave it, a location it did not give None, an id in any
\* case; an empty list empties it); one whose payload carries no courses
\* leaves the list as it was, ids included.
C7_CoursesReplacedWhole ==
    [][\A t \in Threads :
         (Leaves(t, "update_teacher_148") /\ pc'[t] = "update_teacher_149")
         => LET old == Lookup(teachers, req[t].id).courses
                new == Lookup(teachers', req[t].id).courses
                p == req[t].body
            IN  IF "courses" \notin DOMAIN p THEN new = old
                ELSE /\ new # None
                     /\ SameOnSetFields(new[1], p.courses[1])
                     /\ \A i \in 1..Len(new[1]) :
                            /\ DOMAIN new[1][i] = CourseBaseFields
                            /\ new[1][i].id # None
                            /\ "location" \notin DOMAIN p.courses[1][i]
                               => new[1][i].location = None]_vars
\* an update that carried a one-course list was answered 200 and the teacher
\* has that one course
C7_Witness ==
    \E t \in Threads :
        /\ pc[t] = "done" /\ req[t].op = "update_teacher"
        /\ resp[t].status = 200
        /\ Given(req[t].body, "courses")
        /\ Len(req[t].body.courses[1]) = 1
        /\ Len(resp[t].body.courses[1]) = 1
        /\ resp[t].body.courses[1][1].code = Some(HUMA1123)

\* C8: applying the payload of a successful update once more to the record it
\* produced gives that record again, embedded courses included.
C8_UpdateIsIdempotent ==
    [][\A t \in Threads :
         /\ (Leaves(t, "update_course_79") /\ pc'[t] = "update_course_80")
            => LET new == Lookup(courses', req[t].id)
               IN  CourseRead(DictUpdate(new, req[t].body), 0, now') = new
         /\ (Leaves(t, "update_teacher_148") /\ pc'[t] = "update_teacher_149")
            => LET new == Lookup(teachers', req[t].id)
               IN  TeacherRead(DictUpdate(new, req[t].body), uuidCtr', now')
                   = new]_vars

\* C9: the insert of a creation stores, under the payload's id, a record
\* equal to the payload on code, title, credits and location, with id,
\* created_at and updated_at populated; a stored record changes only by an
\* update of its id; and a get of a stored id is answered 200 with the record.
C9_CreateThenGet ==
    [][/\ \A t \in Threads :
            /\ Leaves(t, "create_course_44")
               => LET new == Lookup(courses', req[t].id)
                  IN  /\ \A f \in CourseUpdateFields : new[f] = req[t].body[f]
                      /\ new.id = Some(req[t].id)
                      /\ new.created_at # None /\ new.updated_at # None
            /\ (Takes(t, "get_course") /\ req'[t].id \in Keys(courses))
               => pc'[t] = "get_course_71"
            /\ Leaves(t, "get_course_71")
               => /\ resp'[t].status = 200
                  /\ resp'[t].body = Lookup(courses, req[t].id)
       /\ \A x \in Keys(courses) \cap Keys(courses') :
            Lookup(courses', x) # Lookup(courses, x)
            => \E t \in Threads :
                   Leaves(t, "update_course_79") /\ req[t].id = x]_vars
\* a get was answered 200 with a record that has a location and the three
\* server-side fields
C9_Witness ==
    \E t \in Threads :
        /\ pc[t] = "done" /\ req[t].op = "get_course"
        /\ resp[t].status = 200
        /\ resp[t].body = Lookup(courses, req[t].id)
        /\ resp[t].body.location = Some(NWC)
        /\ resp[t].body.created_at # None

\* the criteria of a listing that name a field of the entity itself
CourseCriteria == CourseUpdateFields
TeacherCriteria == TeacherBaseFields \ {"courses"}
\* the records each of whose fields equals the criterion given for it
Matching(all, q) ==
    SelectSeq(all, LAMBDA a : \A f \in DOMAIN q : a[f] = q[f])
\* worker t has answered a listing with direct-field criteria only
Listed(t) ==
    /\ pc[t] = "done"
    /\ \/ req[t].op = "list_courses" /\ DOMAIN req[t].body \subseteq CourseCriteria
       \/ req[t].op = "list_teachers" /\ DOMAIN req[t].body \subseteq TeacherCriteria
ListedFrom(t) ==
    IF req[t].op = "list_courses" THEN Values(courses) ELSE Values(teachers)

\* C10 as stated: a listing with any direct-field criteria is answered 200
\* with exactly the stored entities that match every criterion, in listing
\* order, and never with an error.
C10_ListingNeverFails ==
    \A t \in Threads :
        Listed(t) => /\ resp[t].status = 200
                     /\ resp[t].body = Matching(ListedFrom(t), req[t].body)

\* C10 amended: a listing whose credits criterion, if any, is within 1..5 is
\* answered 200 with exactly the stored entities that match every criterion,
\* in listing order (all of them with no criterion, none with no match or an
\* empty store); a credits criterion outside 1..5 is answered 422.
C10_ListingFilters ==
    \A t \in Threads :
        Listed(t)
        => IF Given(req[t].body, "credits")
              /\ req[t].body.credits[1] \notin 1..5
           THEN resp[t].status = 422
           ELSE /\ resp[t].status = 200
                /\ resp[t].body = Matching(ListedFrom(t), req[t].body)
\* a listing with two criteria returned one of two stored courses
C10_Witness ==
    \E t \in Threads :
        /\ Listed(t) /\ req[t].op = "list_courses"
        /\ DOMAIN req[t].body = {"credits", "location"}
        /\ resp[t].status = 200
        /\ Len(courses) = 2
        /\ Len(resp[t].body) = 1

\* worker t has answered a teacher listing with nested criteria only
ListedNested(t) ==
    /\ pc[t] = "done" /\ req[t].op = "list_teachers"
    /\ req[t].body # <<>>
    /\ DOMAIN req[t].body \subseteq {"location", "credits"}
    /\ resp[t].status = 200

\* C11: a teacher listing with nested criteria returns exactly the teachers
\* that have, for each criterion, an embedded course whose field equals the
\* criterion's value; a course without location equals no location value,
\* the empty string included.
C11_NestedExact ==
    \A t \in Threads :
        ListedNested(t)
        => resp[t].body =
               SelectSeq(Values(teachers), LAMBDA p :
                   \A f \in DOMAIN req[t].body :
                       \E i \in 1..Len(p.courses[1]) :
                           p.courses[1][i][f] = req[t].body[f])

\* the keys of a store in listing order
KeySeq(d) == [i \in 1..Len(d) |-> d[i].key]
\* from one state of a store to the next the order of the keys is kept: the
\* keys are the same in the same places, or a new key x went to the end, or
\* a key x left and the others kept their order; created and deleted are
\* the ids a creation inserts and a delete removes in the step
OrderKept(d, e, created, deleted) ==
    \/ KeySeq(e) = KeySeq(d)
    \/ \E x \in created \ Keys(d) : KeySeq(e) = Append(KeySeq(d), x)
    \/ \E x \in deleted \cap Keys(d) :
           KeySeq(e) = SelectSeq(KeySeq(d), LAMBDA k : k # x)
\* no key twice
KeysUnique(d) == \A i, j \in 1..Len(d) : d[i].key = d[j].key => i = j

\* C12: each store holds every key once, in the order of the creations that
\* made the entries live (a creation puts its id last, a delete takes its id
\* out, and nothing else, an update included, moves a key), and an
\* unfiltered listing returns the store's records in that order.
C12_ListingInCreationOrder ==
    [][/\ KeysUnique(courses') /\ KeysUnique(teachers')
       /\ OrderKept(courses, courses',
                    {req[t].id : t \in {u \in Threads :
                                           Leaves(u, "create_course_44")}},
                    {req[t].id : t \in {u \in Threads :
                                           Leaves(u, "delete_course_86")}})
       /\ OrderKept(teachers, teachers',
                    {req'[t].id : t \in {u \in Threads :
                                            Takes(u, "create_teacher")}},
                    {req[t].id : t \in {u \in Threads :
                                           Leaves(u, "delete_teacher_155")}})
       /\ \A t \in Threads :
            /\ (Takes(t, "list_courses") /\ req'[t].body = <<>>)
               => resp'[t] = [status |-> 200, body |-> Values(courses)]
            /\ (Takes(t, "list_teachers") /\ req'[t].body = <<>>)
               => resp'[t] = [status |-> 200, body |-> Values(teachers)]]_vars
\* an unfiltered listing returned course 2 before course 1, course 2 with
\* the location an update gave it
C12_Witness ==
    \E t \in Threads :
        /\ pc[t] = "done" /\ req[t].op = "list_courses"
        /\ req[t].body = <<>> /\ resp[t].status = 200
        /\ Len(resp[t].body) = 2
        /\ resp[t].body[1].id = Some(2) /\ resp[t].body[2].id = Some(1)
        /\ resp[t].body[1].location = None

CourseOps == {"create_course", "list_courses", "get_course", "update_course",
              "delete_course"}
TeacherOps == {"create_teacher", "list_teachers", "get_teacher",
               "update_teacher", "delete_teacher"}
\* the request worker t works on in this step, if it takes a step
StepOf(t) ==
    IF pc[t] = pc'[t] THEN "none"
    ELSE IF pc[t] = "idle" THEN req'[t].op ELSE req[t].op

\* C13: no step of a teacher request changes the course store and no step of
\* a course request changes the teacher store, embedded course lists
\* included.
C13_StoresAreIndependent ==
    [][\A t \in Threads :
         /\ StepOf(t) \in TeacherOps => courses' = courses
         /\ StepOf(t) \in CourseOps => teachers' = teachers]_vars
\* a teacher was created with an embedded course that has the id and the
\* code of a stored course
C13_Witness ==
    \E t \in Threads :
        /\ pc[t] = "done" /\ req[t].op = "create_teacher"
        /\ resp[t].status = 201
        /\ Len(resp[t].body.courses[1]) = 1
        /\ Has(courses, resp[t].body.courses[1][1].id[1])
        /\ Lookup(courses, resp[t].body.courses[1][1].id[1]).code
           = resp[t].body.courses[1][1].code

\* a creation body that validates once its credits are put to 3
ValidButCredits(b) ==
    Given(b, "credits") /\ CourseCreateOk(Except(b, "credits", Some(3)))

\* C14: a course creation whose body is valid but for its credits is refused
\* with 422, the store unchanged, when credits is outside 1..5, and is not
\* refused with 422 when credits is within 1..5; what goes on to the insert
\* is stored with the body's credits and answered 201.
C14_CreditsBounds ==
    [][\A t \in Threads :
         /\ (Takes(t, "create_course") /\ ValidButCredits(req'[t].body))
            => IF req'[t].body.credits[1] \in 1..5
               THEN resp'[t].status # 422
               ELSE /\ pc'[t] = "done" /\ resp'[t].status = 422
                    /\ courses' = courses
         /\ Leaves(t, "create_course_44")
            => Lookup(courses', req[t].id).credits = req[t].body.credits
         /\ Leaves(t, "create_course_45") => resp'[t].status = 201]_vars
\* a creation with credits 5 was answered 201 and a course with credits 1 is
\* stored as well
C14_Witness ==
    \E t \in Threads :
        /\ pc[t] = "done" /\ req[t].op = "create_course"
        /\ resp[t].status = 201
        /\ resp[t].body.credits = Some(5)
        /\ \E i \in 1..Len(courses) : courses[i].val.credits = Some(1)

\* C15: a teacher creation is answered 422 or 201, never 400; with a body
\* that validates it is answered 201 with an id that was no key of the store
\* and that is none a client can supply, and the store is the old one with
\* the new record appended.
C15_TeacherIdIsFresh ==
    [][\A t \in Threads :
         Takes(t, "create_teacher")
         => /\ pc'[t] = "done"
            /\ resp'[t].status \in {201, 422}
            /\ TeacherCreateOk(req'[t].body)
               => /\ resp'[t].status = 201
                  /\ resp'[t].body.id = Some(req'[t].id)
                  /\ req'[t].id \notin Keys(teachers)
                  /\ req'[t].id > MaxClientId
                  /\ teachers' = Append(teachers, [key |-> req'[t].id,
                                                   val |-> resp'[t].body])]_vars
\* the body that carried the client's id 1 was answered 201 under another
\* id, as the second teacher of the store
C15_Witness ==
    \E t \in Threads :
        /\ pc[t] = "done" /\ req[t].op = "create_teacher"
        /\ resp[t].status = 201
        /\ resp[t].body.first_name = Some("Alice")
        /\ resp[t].body.id # Some(1)
        /\ Len(teachers) = 2

\* the fields of each kind of entity that may be None
OptionalOf(op) ==
    IF op = "update_course" THEN {"location"} ELSE {"academic_title", "office"}

\* C16: a successful update whose payload carries an optional field as None
\* stores None for it, one whose payload leaves the field out stores the old
\* value; the same payload without the field would have kept the old value,
\* so the two results differ whenever the old value was set.
C16_PresenceNotTruthiness ==
    [][\A t \in Threads :
         /\ (Leaves(t, "update_course_79") /\ pc'[t] = "update_course_80")
            => LET old == Lookup(courses, req[t].id)
                   new == Lookup(courses', req[t].id)
                   p == req[t].body
               IN  \A f \in OptionalOf(req[t].op) :
                       IF f \notin DOMAIN p THEN new[f] = old[f]
                       ELSE p[f] = None
                            => LET other == CourseRead(
                                       DictUpdate(old, Without(p, f)), 0, now)
                               IN  /\ new[f] = None
                                   /\ other[f] = old[f]
                                   /\ old[f] # None => other # new
         /\ (Leaves(t, "update_teacher_148") /\ pc'[t] = "update_teacher_149")
            => LET old == Lookup(teachers, req[t].id)
                   new == Lookup(teachers', req[t].id)
                   p == req[t].body
               IN  \A f \in OptionalOf(req[t].op) :
                       IF f \notin DOMAIN p THEN new[f] = old[f]
                       ELSE p[f] = None
                            => LET other == TeacherRead(
                                       DictUpdate(old, Without(p, f)),
                                       uuidCtr, now)
                               IN  /\ new[f] = None
                                   /\ other[f] = old[f]
                                   /\ old[f] # None => other # new]_vars
\* an update that carried location as None, and nothing else, was answered
\* 200 with the course created at 501 Northwest Corner, now without location
C16_Witness ==
    \E t \in Threads :
        /\ pc[t] = "done" /\ req[t].op = "update_course"
        /\ resp[t].status = 200
        /\ req[t].body = [location |-> None]
        /\ resp[t].body.id = Some(1)
        /\ resp[t].body.location = None

ServerFields == {"id", "created_at", "updated_at"}
\* the entries of store d that are still in store e have kept their id,
\* created_at and updated_at
ServerFieldsKept(d, e) ==
    \A x \in Keys(d) \cap Keys(e) :
        \A f \in ServerFields : Lookup(e, x)[f] = Lookup(d, x)[f]

C18_StoredValuesValid ==
    /\ \A i \in 1..Len(courses) :
         LET c == courses[i].val
         IN  /\ c.code # None /\ Len(c.code[1]) = 8
             /\ \A k \in 1..4 : c.code[1][k] \in UPPER
             /\ \A k \in 5..8 : c.code[1][k] \in DIGIT
             /\ c.credits # None /\ c.credits[1] \in 1..5
    /\ \A i \in 1..Len(teachers) :
         LET u == teachers[i].val.uni
         IN  /\ u # None
             /\ \E n \in 2..3 :
                  /\ Len(u[1]) \in (n + 1)..(n + 4)
                  /\ \A k \in 1..n : u[1][k] \in LOWER
                  /\ \A k \in (n + 1)..Len(u[1]) : u[1][k] \in DIGIT
\* an update that supplied a lower-case code was refused and the course
\* still has its code
C18_Witness ==
    \E t \in Threads :
        /\ pc[t] = "done" /\ req[t].op = "update_course"
        /\ Given(req[t].body, "code")
        /\ req[t].body.code = Some(LowerCode)
        /\ resp[t].status = 500
        /\ Has(courses, req[t].id)
        /\ Lookup(courses, req[t].id).code # Some(LowerCode)

\* C19: in both stores every record is stored under its own id, and a get
\* answered 200 returns a record with the id that was asked for.
C19_KeyIsId ==
    /\ \A i \in 1..Len(courses) : courses[i].val.id = Some(courses[i].key)
    /\ \A i \in 1..Len(teachers) : teachers[i].val.id = Some(teachers[i].key)
    /\ \A t \in Threads :
         (/\ pc[t] = "done" /\ req[t].op \in {"get_course", "get_teacher"}
          /\ resp[t].status = 200)
         => resp[t].body.id = Some(req[t].id)
\* a get of course 1 was answered 200 with the record under key 1, whose
\* code and location updates have replaced, while two courses are stored
C19_Witness ==
    \E t \in Threads :
        /\ pc[t] = "done" /\ req[t].op = "get_course"
        /\ resp[t].status = 200
        /\ resp[t].body.id = Some(1)
        /\ resp[t].body.code = Some(COMS4111)
        /\ resp[t].body.location = Some(IAB)
        /\ Len(courses) = 2

\* C20: the write of an update (lines 79 and 148) never lands on an id that
\* a delete has removed since the update's existence test: the id is a key
\* of the store when the write happens.
C20_UpdateNeverReinserts ==
    [][\A t \in Threads :
         /\ (Leaves(t, "update_course_79") /\ pc'[t] = "update_course_80")
            => req[t].id \in Keys(courses)
         /\ (Leaves(t, "update_teacher_148") /\ pc'[t] = "update_teacher_149")
            => req[t].id \in Keys(teachers)]_vars

\* C21: a get, update or delete ends in success or in 404, whatever other
\* requests on the same id run at the same time: none passes its existence
\* test and then fails on the missing key.
C21_SuccessOrNotFound ==
    \A t \in Threads :
        (/\ pc[t] = "done"
         /\ req[t].op \in {"get_course", "update_course", "delete_course",
                           "get_teacher", "update_teacher", "delete_teacher"})
        => resp[t].status \in {200, 204, 404}

\* C22: no step of a get or a listing changes either store, and a request
\* that ends in 404 has done so in its first step without changing either
\* store.
C22_ReadsAndNotFoundChangeNothing ==
    [][\A t \in Threads :
         /\ StepOf(t) \in {"get_course", "list_courses", "get_teacher",
                           "list_teachers"}
            => courses' = courses /\ teachers' = teachers
         /\ (pc[t] # "done" /\ pc'[t] = "done" /\ resp'[t].status = 404)
            => /\ pc[t] = "idle"
               /\ req'[t].op \in {"get_course", "update_course", "delete_course",
                                  "get_teacher", "update_teacher",
                                  "delete_teacher"}
               /\ courses' = courses /\ teachers' = teachers]_vars
\* a delete of an id that is not stored was answered 404 while both stores
\* hold a record
C22_Witness ==
    \E t \in Threads :
        /\ pc[t] = "done" /\ req[t].op = "delete_course"
        /\ resp[t].status = 404
        /\ Len(courses) = 1 /\ Len(teachers) = 1

====
